---- MODULE Spec2Model ----
(***************************************************************************)
(* wlsqva: weighted least-squares slowness of a plane wave crossing a      *)
(* sensor array (array_processing/algorithms/wlsqva.py).                   *)
(*                                                                         *)
(* One call of wlsqva is modelled as a state machine whose program counter *)
(* walks the stages of the function body.  Numbers are kept exact:         *)
(*   - samples, coordinates and weights are integers;                      *)
(*   - an entry of the normalised correlation matrix is num/sqrt(den2),    *)
(*     or NaN (0/0, or uninitialised memory holding a NaN);                *)
(*   - delays, slowness components are rationals [n, d];                   *)
(*   - an angle in degrees is an interval [lo, hi]: exact when lo = hi,    *)
(*     strictly between lo and hi otherwise.                               *)
(***************************************************************************)
EXTENDS Integers, Sequences, FiniteSets, TLC

\* ------------------------------------------------------------------ bounds
MaxN == 4        \* most sensors of an input
MaxDim == 4      \* most rows of rij of an input
MaxM == 3        \* most samples per trace
MaxVal == 2      \* samples are drawn from 0..MaxVal
MaxCoord == 1    \* coordinates are drawn from 0..MaxCoord
MaxWgt == 2      \* weights are drawn from 0..MaxWgt
MaxHz == 2       \* sample rates are drawn from 1..MaxHz

VARIABLES
    data, rij, hz, wgt,       \* the arguments (wgt is rebound at l.115/119)
    pc, outcome,              \* position in the body; what the call raised/returned
    m, nTraces, dim, N_w,     \* l.110-123
    idx, xij, W, N, cij,      \* l.129-137
    k,                        \* loop index of l.138 and of the column-wise l.146-153
    cmax, tau_p,              \* l.146-153
    s_p, vel, az,             \* l.156-163
    N_p, sig_tau_p,           \* l.168-169
    ret                       \* l.171: the tuple returned

vars == <<data, rij, hz, wgt, pc, outcome, m, nTraces, dim, N_w, idx, xij, W, N,
          cij, k, cmax, tau_p, s_p, vel, az, N_p, sig_tau_p, ret>>

\* ------------------------------------------------------------ number model
\* the argument wgt: None, or a list of weights
None == [given |-> FALSE, v |-> <<>>]
Given(w) == [given |-> TRUE, v |-> w]
Unset == "unset"

Abs(x) == IF x < 0 THEN -x ELSE x
Sgn(x) == IF x < 0 THEN -1 ELSE IF x > 0 THEN 1 ELSE 0
SgnSq(x) == Sgn(x) * x * x

RECURSIVE SumTo(_, _)
\* f[1] + ... + f[n]
SumTo(f, n) == IF n = 0 THEN 0 ELSE f[n] + SumTo(f, n - 1)

\* a float that is num/sqrt(den2), den2 > 0, or NaN
NaN == [nan |-> TRUE, num |-> 0, den2 |-> 1]
Val(num, den2) == [nan |-> FALSE, num |-> num, den2 |-> den2]
Zero == Val(0, 1)

\* e1 < e2 for two floats that are not NaN
FLess(e1, e2) == SgnSq(e1.num) * e2.den2 < SgnSq(e2.num) * e1.den2
FEq(e1, e2) == /\ e1.nan = e2.nan
               /\ ~e1.nan => SgnSq(e1.num) * e2.den2 = SgnSq(e2.num) * e1.den2

\* a rational n/d, d > 0
Rat(n, d) == [n |-> n, d |-> d]
RatEq(a, b) == a.n * b.d = b.n * a.d

\* a 2-d array of shape (rows, cols) with the rows at[r], entries at[r][c]
Arr(rows, cols, at) == [rows |-> rows, cols |-> cols, at |-> at]
\* data[:, i] with i 0-based, as a sequence of the rows' entries
Col(a, i) == [r \in 1..a.rows |-> a.at[r][i + 1]]

\* ------------------------------------------------------ input validation
IndexError(msg) == [type |-> "IndexError", msg |-> msg]
ValueError(msg) == [type |-> "ValueError", msg |-> msg]
LinAlgError(msg) == [type |-> "LinAlgError", msg |-> msg]
Ok == [type |-> "ok", msg |-> ""]

\* ShapeCheck with the dimension check moved to the front
ShapeCheck_DimFirst(d, r) ==
    IF r.rows < 2 \/ r.rows > 3 THEN ValueError("rij.shape[0] != 2|3")
    ELSE IF d.cols # r.cols THEN IndexError("data.shape[1] != ")
    ELSE IF r.cols < r.rows + 1 THEN ValueError("rij.shape[1] < ")
    ELSE Ok

\* ShapeCheck with the lower half of the dimension check lost
ShapeCheck_UpperOnly(d, r) ==
    IF d.cols # r.cols THEN IndexError("data.shape[1] != ")
    ELSE IF r.cols < r.rows + 1 THEN ValueError("rij.shape[1] < ")
    ELSE IF r.rows > 3 THEN ValueError("rij.shape[0] != 2|3")
    ELSE Ok

\* l.101-106: the three checks on the shapes of data and rij, in source order
ShapeCheck(d, r) ==
    IF d.cols # r.cols THEN IndexError("data.shape[1] != ")
    ELSE IF r.cols < r.rows + 1 THEN ValueError("rij.shape[1] < ")
    ELSE IF r.rows < 2 \/ r.rows > 3 THEN ValueError("rij.shape[0] != 2|3")
    ELSE Ok

\* l.115: wgt = np.array([1 for i in range(nTraces)])
DefaultWgt(n) == [i \in 1..n |-> 1]

\* CountNonzero counting every weight
CountNonzero_All(w) == Len(w)

\* l.123: N_w = sum(wgt != 0)
CountNonzero(w) == Cardinality({i \in 1..Len(w) : w[i] # 0})

\* l.113-125: the weight vector in array form, N_w, and the checks on them
WgtCheck(w, n, dm) ==
    IF ~w.given THEN Ok
    ELSE IF Len(w.v) # n THEN IndexError("len(wgt) != ")
    ELSE IF CountNonzero(w.v) < dm + 1 THEN ValueError("sum(wgt != 0) < ")
    ELSE Ok

\* ------------------------------------------------- pairs and the co-array
\* PairWeight adding the two weights
PairWeight_Sum(wi, wj) == wi + wj

\* l.129: the weight wgt[i]*wgt[j] of a pair
PairWeight(wi, wj) == wi * wj

\* RowPairs with j descending
RowPairs_Desc(i, n, w) ==
    [q \in 1..(n - 1 - i) |-> <<i, n - q, PairWeight(w[i + 1], w[n - q + 1])>>]

\* the j-loop of l.129-130 for one i: (i, j, wgt[i]*wgt[j]) for j in i+1..n-1
RowPairs(i, n, w) ==
    [q \in 1..(n - 1 - i) |-> <<i, i + q, PairWeight(w[i + 1], w[i + q + 1])>>]

RECURSIVE IdxFrom(_, _, _)
IdxFrom(i, n, w) ==
    IF i >= n - 1 THEN <<>> ELSE RowPairs(i, n, w) \o IdxFrom(i + 1, n, w)

\* l.129-130: idx, the list of (i, j, wgt[i]*wgt[j]), i and j 0-based
Idx(n, w) == IdxFrom(0, n, w)

\* l.132: xij = rij[:, [i...]] - rij[:, [j...]]
CoArray(r, ix) ==
    Arr(r.rows, Len(ix),
        [d \in 1..r.rows |-> [p \in 1..Len(ix) |->
            r.at[d][ix[p][1] + 1] - r.at[d][ix[p][2] + 1]]])

\* l.134: W = np.diag(...); W[p] is the diagonal entry W[p][p], the rest is 0
Wdiag(ix) == [p \in 1..Len(ix) |-> ix[p][3]]

\* --------------------------------------------------------- correlation
\* CorrFull with the two traces exchanged
CorrFull_Swapped(a, v) ==
    LET mm == Len(a)
        term(p) == [n \in 1..mm |->
                      IF n + p - mm >= 1 /\ n + p - mm <= mm
                      THEN v[n + p - mm] * a[n] ELSE 0]
    IN [p \in 1..(2 * mm - 1) |-> SumTo(term(p), mm)]

\* np.correlate(a, v, mode='full'): entry p (1-based) is lag p - m,
\* c = sum_n a[n + lag] * v[n] over the n where both samples exist
CorrFull(a, v) ==
    LET mm == Len(a)
        term(p) == [n \in 1..mm |->
                      IF n + p - mm >= 1 /\ n + p - mm <= mm
                      THEN a[n + p - mm] * v[n] ELSE 0]
    IN [p \in 1..(2 * mm - 1) |-> SumTo(term(p), mm)]

\* sum(x * x)
Energy(a) == SumTo([n \in 1..Len(a) |-> a[n] * a[n]], Len(a))

\* c / np.sqrt(e2): 0/0 is NaN (c # 0 with e2 = 0 cannot happen: a trace of
\* energy 0 is all zero and so is every correlation with it)
FDiv(c, e2) == IF e2 = 0 THEN NaN ELSE Val(c, e2)

\* l.142-143: the column written for a weighted pair
CorrCoeff(a, v) ==
    LET c == CorrFull(a, v)
        e2 == Energy(a) * Energy(v)
    IN [p \in 1..Len(c) |-> FDiv(c[p], e2)]

\* l.137: np.empty leaves the buffer uninitialised
Uninit == <<>>
JunkLo == Val(-1, 1)
JunkHi == Val(MaxVal + 1, 1)
\* what a never-written column of length L may hold when it is read: any
\* position may hold the largest value, or the first NaN
JunkCols(L) ==
    {[p \in 1..L |-> IF p = q THEN e ELSE JunkLo] : q \in 1..L, e \in {JunkHi, NaN}}
ReadCol(c, L) == IF c = Uninit THEN JunkCols(L) ELSE {c}

HasNaN(col) == \E p \in 1..Len(col) : col[p].nan
IsMaxAt(col, p) == \A q \in 1..Len(col) : ~FLess(col[p], col[q])

\* l.146: cij.max(axis=0) for one column (NaN propagates)
ColMax(col) ==
    IF HasNaN(col) THEN NaN
    ELSE col[CHOOSE p \in 1..Len(col) : IsMaxAt(col, p)]

\* l.148: np.argmax(cij, axis=0) for one column, 0-based: the first NaN if
\* there is one, the first maximum otherwise
ArgMax(col) ==
    LET hit(p) == IF HasNaN(col) THEN col[p].nan ELSE IsMaxAt(col, p)
    IN (CHOOSE p \in 1..Len(col) : hit(p) /\ \A q \in 1..(p - 1) : ~hit(q)) - 1

\* CmaxOf without the reset of the unweighted pairs
CmaxOf_NoReset(col, w) == ColMax(col)

\* l.147: cmax[[i for i in range(N) if W[i][i] == 0]] = 0
CmaxOf(col, w) == IF w = 0 THEN Zero ELSE ColMax(col)

\* l.148: delay = np.argmax(cij, axis=0) + 1
Delay(col) == ArgMax(col) + 1

\* l.150: tau = (m - delay)/hz
Tau(mm, delay, h) == Rat(mm - delay, h)

\* l.153: tau_p = W@tau, W diagonal and tau finite: entry p is W[p][p]*tau[p]
TauP(w, t) == Rat(w * t.n, t.d)

\* l.171: the third value returned
ReturnedTau(tp) == tp

\* l.152: X_p = W@xij.T, N x dim
Xp(Wd, x) == [p \in 1..x.cols |-> [d \in 1..x.rows |-> Wd[p] * x.at[d][p]]]

\* ------------------------------------------------------- least squares
\* X_p.T @ X_p, dim x dim
Gram(X, dm) ==
    [a \in 1..dm |-> [b \in 1..dm |->
        SumTo([p \in 1..Len(X) |-> X[p][a] * X[p][b]], Len(X))]]

\* X_p.T @ tau_p, every tau_p[p] over the denominator h
XtTau(X, tp, dm, h) ==
    [a \in 1..dm |-> Rat(SumTo([p \in 1..Len(X) |-> X[p][a] * tp[p].n], Len(X)), h)]

\* tau_p @ tau_p
TauSq(tp, h) == Rat(SumTo([p \in 1..Len(tp) |-> tp[p].n * tp[p].n], Len(tp)), h * h)

Others(r) == IF r = 1 THEN <<2, 3>> ELSE IF r = 2 THEN <<1, 3>> ELSE <<1, 2>>
Minor3(A, r, c) ==
    LET rr == Others(r)
        cc == Others(c)
    IN A[rr[1]][cc[1]] * A[rr[2]][cc[2]] - A[rr[1]][cc[2]] * A[rr[2]][cc[1]]
Cofactor3(A, r, c) == (IF (r + c) % 2 = 0 THEN 1 ELSE -1) * Minor3(A, r, c)

\* determinant and adjugate of a 2x2 or 3x3 matrix: inv(A) = Adj(A)/Det(A)
Det(A) ==
    IF Len(A) = 2 THEN A[1][1] * A[2][2] - A[1][2] * A[2][1]
    ELSE A[1][1] * Cofactor3(A, 1, 1) + A[1][2] * Cofactor3(A, 1, 2)
         + A[1][3] * Cofactor3(A, 1, 3)
Adj(A) ==
    IF Len(A) = 2 THEN << <<A[2][2], -A[1][2]>>, <<-A[2][1], A[1][1]>> >>
    ELSE [a \in 1..3 |-> [b \in 1..3 |-> Cofactor3(A, b, a)]]

\* l.156: np.linalg.inv raises LinAlgError on a singular matrix
InvCheck(A) == IF Det(A) = 0 THEN LinAlgError("Singular matrix") ELSE Ok

RECURSIVE Gcd(_, _)
Gcd(a, b) == IF b = 0 THEN Abs(a) ELSE Gcd(b, a % Abs(b))
RECURSIVE GcdTo(_, _)
\* the gcd of f[1], ..., f[n]
GcdTo(f, n) == IF n = 0 THEN 0 ELSE Gcd(f[n], GcdTo(f, n - 1))

\* l.156: s_p = inv(X_p.T@X_p) @ X_p.T @ tau_p = Adj(A) @ B / Det(A): the
\* components as rationals over one denominator D*hz, D > 0, in lowest terms
Slowness(A, B) ==
    LET dm == Len(A)
        adj == Adj(A)
        sn == [a \in 1..dm |-> SumTo([b \in 1..dm |-> adj[a][b] * B[b].n], dm)]
        g == Gcd(GcdTo(sn, dm), Det(A))
    IN [a \in 1..dm |-> Rat((Sgn(Det(A)) * sn[a]) \div g, (Abs(Det(A)) \div g) * B[a].d)]

\* ------------------------------------------------- geographic conversion
\* sum of the squared numerators of the first cnt components (the
\* components share one positive denominator)
NumSq(s, cnt) == SumTo([a \in 1..cnt |-> s[a].n * s[a].n], cnt)

\* l.158: vel = 1/np.linalg.norm(s_p, 2), kept as the vector whose norm is
\* inverted; 1/0.0 is inf
Vel(s) == [inf |-> \A a \in 1..Len(s) : s[a].n = 0, inv |-> s]

Ang(lo, hi) == [lo |-> lo, hi |-> hi]
Exact(a) == Ang(a, a)

\* np.arctan2(y, x) * 180 / np.pi from the signs sy, sx of y and x and the
\* sign c of |y| - |x|; the result lies in (-180, 180]
ATan2Deg(sy, sx, c) ==
    IF sy = 0 THEN (IF sx < 0 THEN Exact(180) ELSE Exact(0))
    ELSE IF sx = 0 THEN (IF sy > 0 THEN Exact(90) ELSE Exact(-90))
    ELSE IF sy > 0 /\ sx > 0
         THEN (IF c < 0 THEN Ang(0, 45) ELSE IF c = 0 THEN Exact(45) ELSE Ang(45, 90))
    ELSE IF sy > 0 /\ sx < 0
         THEN (IF c > 0 THEN Ang(90, 135) ELSE IF c = 0 THEN Exact(135) ELSE Ang(135, 180))
    ELSE IF sy < 0 /\ sx < 0
         THEN (IF c < 0 THEN Ang(-180, -135) ELSE IF c = 0 THEN Exact(-135) ELSE Ang(-135, -90))
    ELSE (IF c > 0 THEN Ang(-90, -45) ELSE IF c = 0 THEN Exact(-45) ELSE Ang(-45, 0))

\* (x - 360) % 360 on an angle
Mod360(a) ==
    LET lo == (a.lo - 360) % 360
    IN Ang(lo, lo + (a.hi - a.lo))

\* l.160: az = (np.arctan2(s_p[0], s_p[1]) * 180 / np.pi - 360) % 360
Azimuth(s) ==
    Mod360(ATan2Deg(Sgn(s[1].n), Sgn(s[2].n), Sgn(Abs(s[1].n) - Abs(s[2].n))))

\* l.163: np.arctan2(s_p[2], np.linalg.norm(s_p[:2], 2)) * 180 / np.pi
Elevation(s) ==
    ATan2Deg(Sgn(s[3].n), Sgn(NumSq(s, 2)), Sgn(s[3].n * s[3].n - NumSq(s, 2)))

\* l.160-163: a float for dim = 2, hstack((az, elevation)) for dim = 3
AzOf(s, dm) == IF dm = 3 THEN <<Azimuth(s), Elevation(s)>> ELSE Azimuth(s)

\* ----------------------------------------------------------- uncertainty
\* Np counting the pairs of one sensor less
Np_OffByOne(nw) == ((nw - 1) * (nw - 2)) \div 2

\* l.168: N_p = N_w*(N_w-1)/2
Np(nw) == (nw * (nw - 1)) \div 2

\* l.169: the divisor N_p - dim
DoF(np, dm) == np - dm

\* tau_p @ (eye(N) - X_p @ inv(X_p.T@X_p) @ X_p.T) @ tau_p
\*   = tau_p@tau_p - B @ s,  B = X_p.T @ tau_p,  s = inv(X_p.T@X_p) @ B
Residual(B, s, tt) ==
    LET dm == Len(B)
        D == s[1].d \div B[1].d
    IN Rat(tt.n * D - SumTo([a \in 1..dm |-> B[a].n * s[a].n], dm), D * tt.d)

\* l.169: sqrt(abs(residual / (N_p - dim))), kept as its square; a zero
\* divisor gives nan or inf
SigTau(res, dof) ==
    IF dof = 0 THEN [undef |-> TRUE, sq |-> Rat(0, 1)]
    ELSE [undef |-> FALSE, sq |-> Rat(Abs(res.n), Abs(res.d * dof))]

\* ---------------------------------------------------------------- inputs
\* l.103, l.124: the least number of (weighted) sensors for dm dimensions
Required(dm) == dm + 1

\* a layout of n sensors in dm dimensions: the origin, the unit points of
\* the axes, then points on the diagonal
DefaultRij(dm, n) ==
    Arr(dm, n, [d \in 1..dm |-> [i \in 1..n |->
        IF i = 1 THEN 0
        ELSE IF i <= dm + 1 THEN (IF d = i - 1 THEN 1 ELSE 0)
        ELSE i - dm - 1]])

\* n traces of mm samples: trace i (1-based) is a pulse of height 2 at
\* sample ((i-1) mod mm) + 1, followed on the even traces by a sample of 1
DefaultData(mm, n) ==
    Arr(mm, n, [t \in 1..mm |-> [i \in 1..n |->
        IF t = ((i - 1) % mm) + 1 THEN 2
        ELSE IF t = ((i - 1) % mm) + 2 /\ i % 2 = 0 THEN 1
        ELSE 0]])

\* x delayed by d samples (advanced when d < 0), zeros shifted in
Shift(x, d) ==
    [t \in 1..Len(x) |-> IF t - d >= 1 /\ t - d <= Len(x) THEN x[t - d] ELSE 0]

Near(n) == {x \in {n - 1, n, n + 1} : x >= 0}
WgtsOfLen(l) == [1..l -> 0..MaxWgt]

\* the state in which the body starts on the arguments (d, r, h, w)
Start(d, r, h, w) ==
    /\ data = d
    /\ rij = r
    /\ hz = h
    /\ wgt = w
    /\ pc = "start"
    /\ outcome = Ok
    /\ m = 0 /\ nTraces = 0 /\ dim = 0 /\ N_w = 0 /\ N = 0 /\ k = 0 /\ N_p = 0
    /\ idx = <<>> /\ W = <<>> /\ cij = <<>> /\ cmax = <<>> /\ tau_p = <<>>
    /\ s_p = <<>>
    /\ xij = Unset /\ vel = Unset /\ az = Unset /\ sig_tau_p = Unset /\ ret = Unset

\* l.105: the dimensions the routine accepts
ValidDims == {2, 3}

\* every shape of data and rij around the checks, without weights or with
\* unit weights of a length around the sensor count, at every sample rate
UnitWgts(n) == {None} \cup {Given([i \in 1..l |-> 1]) : l \in Near(n)}
InitShape ==
    \E dm \in 0..MaxDim, n \in 0..(MaxDim + 1), h \in 1..MaxHz :
        \E nd \in Near(n), w \in UnitWgts(n) :
            Start(DefaultData(MaxM, nd), DefaultRij(dm, n), h, w)

\* every weight vector of a length around the sensor count, on the default
\* layouts and traces of enough sensors
WgtsNear(n) == UNION {{Given(v) : v \in WgtsOfLen(l)} : l \in Near(n)}
InitWgt ==
    \E dm \in ValidDims :
        \E n \in Required(dm)..MaxN :
            \E w \in WgtsNear(n) :
                Start(DefaultData(MaxM, n), DefaultRij(dm, n), MaxHz, w)

\* three traces on the 2-d layout: a waveform, a copy of it delayed or
\* advanced, and a copy of it advanced or left as it is
InitData ==
    \E mm \in 1..MaxM :
        \E x \in [1..mm -> 0..MaxVal], d2 \in (1 - mm)..(mm - 1), d3 \in (1 - mm)..0 :
            Start(Arr(mm, Required(2), [t \in 1..mm |-> [i \in 1..Required(2) |->
                        IF i = 1 THEN x[t] ELSE IF i = 2 THEN Shift(x, d2)[t]
                        ELSE Shift(x, d3)[t]]]),
                  DefaultRij(2, Required(2)), MaxHz, None)

OneZero(n) == {Given([i \in 1..n |-> IF i = z THEN 0 ELSE 1]) : z \in 1..n}

\* every 2-d layout of one sensor more than required (the first at the
\* origin), with all sensors used or one excluded
InitGeom ==
    LET n == Required(2) + 1 IN
    \E c \in [1..(n - 1) -> [1..2 -> 0..MaxCoord]], w \in {None} \cup OneZero(n) :
        Start(DefaultData(MaxM, n),
              Arr(2, n, [d \in 1..2 |-> [i \in 1..n |-> IF i = 1 THEN 0 ELSE c[i - 1][d]]]),
              MaxHz, w)

Init == InitShape \/ InitWgt \/ InitData \/ InitGeom

\* --------------------------------------------------------------- actions
Raise(e) ==
    /\ pc' = "raised"
    /\ outcome' = e

\* l.101-111: the shape checks, then m, nTraces, dim
CheckShapes ==
    /\ pc = "start"
    /\ LET e == ShapeCheck(data, rij) IN
        IF e # Ok
        THEN Raise(e) /\ UNCHANGED <<m, nTraces, dim>>
        ELSE /\ m' = data.rows
             /\ nTraces' = data.cols
             /\ dim' = rij.rows
             /\ pc' = "weights"
             /\ UNCHANGED outcome
    /\ UNCHANGED <<data, rij, hz, wgt, N_w, idx, xij, W, N, cij, k, cmax, tau_p,
                   s_p, vel, az, N_p, sig_tau_p, ret>>

\* l.113-126: the weight vector, its checks, N_w
SetWeights ==
    /\ pc = "weights"
    /\ LET e == WgtCheck(wgt, nTraces, dim) IN
        IF e # Ok
        THEN Raise(e) /\ UNCHANGED <<wgt, N_w>>
        ELSE /\ wgt' = IF ~wgt.given THEN Given(DefaultWgt(nTraces)) ELSE wgt
             /\ N_w' = IF ~wgt.given THEN nTraces ELSE CountNonzero(wgt.v)
             /\ pc' = "pairs"
             /\ UNCHANGED outcome
    /\ UNCHANGED <<data, rij, hz, m, nTraces, dim, idx, xij, W, N, cij, k, cmax,
                   tau_p, s_p, vel, az, N_p, sig_tau_p, ret>>

\* l.129-137: idx, xij, W, N and the uninitialised buffer cij
BuildCoArray ==
    /\ pc = "pairs"
    /\ idx' = Idx(rij.cols, wgt.v)
    /\ xij' = CoArray(rij, idx')
    /\ W' = Wdiag(idx')
    /\ N' = xij'.cols
    /\ cij' = [p \in 1..N' |-> Uninit]
    /\ k' = 0
    /\ pc' = "correlate"
    /\ UNCHANGED <<data, rij, hz, wgt, outcome, m, nTraces, dim, N_w, cmax, tau_p,
                   s_p, vel, az, N_p, sig_tau_p, ret>>

\* l.138-143: one pass of the loop over the pairs, k 0-based
Correlate ==
    /\ pc = "correlate"
    /\ k < N
    /\ IF W[k + 1] # 0
       THEN cij' = [cij EXCEPT ![k + 1] =
                       CorrCoeff(Col(data, idx[k + 1][1]), Col(data, idx[k + 1][2]))]
       ELSE UNCHANGED cij
    /\ IF k + 1 < N
       THEN k' = k + 1 /\ UNCHANGED pc
       ELSE k' = 0 /\ pc' = "extract"
    /\ UNCHANGED <<data, rij, hz, wgt, outcome, m, nTraces, dim, N_w, idx, xij, W, N,
                   cmax, tau_p, s_p, vel, az, N_p, sig_tau_p, ret>>

\* l.146-153 for column k: cmax[k], delay[k], tau[k] and tau_p[k]; a column
\* that was never written reads as whatever the buffer held
ExtractColumn ==
    /\ pc = "extract"
    /\ k < N
    /\ \E col \in ReadCol(cij[k + 1], 2 * m - 1) :
        /\ cmax' = Append(cmax, CmaxOf(col, W[k + 1]))
        /\ tau_p' = Append(tau_p, TauP(W[k + 1], Tau(m, Delay(col), hz)))
    /\ IF k + 1 < N
       THEN k' = k + 1 /\ UNCHANGED pc
       ELSE k' = 0 /\ pc' = "solve"
    /\ UNCHANGED <<data, rij, hz, wgt, outcome, m, nTraces, dim, N_w, idx, xij, W, N,
                   cij, s_p, vel, az, N_p, sig_tau_p, ret>>

\* l.152-156: X_p and the normal equations
NormalA == Gram(Xp(W, xij), dim)
NormalB == XtTau(Xp(W, xij), tau_p, dim, hz)

Solve ==
    /\ pc = "solve"
    /\ LET e == InvCheck(NormalA) IN
        IF e # Ok
        THEN Raise(e) /\ UNCHANGED s_p
        ELSE /\ s_p' = Slowness(NormalA, NormalB)
             /\ pc' = "convert"
             /\ UNCHANGED outcome
    /\ UNCHANGED <<data, rij, hz, wgt, m, nTraces, dim, N_w, idx, xij, W, N, cij, k,
                   cmax, tau_p, vel, az, N_p, sig_tau_p, ret>>

\* l.158-163: vel and az
Convert ==
    /\ pc = "convert"
    /\ vel' = Vel(s_p)
    /\ az' = AzOf(s_p, dim)
    /\ pc' = "uncertainty"
    /\ UNCHANGED <<data, rij, hz, wgt, outcome, m, nTraces, dim, N_w, idx, xij, W, N,
                   cij, k, cmax, tau_p, s_p, N_p, sig_tau_p, ret>>

\* l.168-171: N_p, sig_tau_p and the return
Uncertainty ==
    /\ pc = "uncertainty"
    /\ N_p' = Np(N_w)
    /\ sig_tau_p' = SigTau(Residual(NormalB, s_p, TauSq(tau_p, hz)), DoF(N_p', dim))
    /\ ret' = [vel |-> vel, az |-> az, tau |-> ReturnedTau(tau_p), cmax |-> cmax,
               sig_tau |-> sig_tau_p', s |-> s_p, xij |-> xij]
    /\ pc' = "returned"
    /\ UNCHANGED <<data, rij, hz, wgt, outcome, m, nTraces, dim, N_w, idx, xij, W, N,
                   cij, k, cmax, tau_p, s_p, vel, az>>

Next ==
    \/ CheckShapes
    \/ SetWeights
    \/ BuildCoArray
    \/ Correlate
    \/ ExtractColumn
    \/ Solve
    \/ Convert
    \/ Uncertainty

Spec == Init /\ [][Next]_vars

\* ================================================================ claims
\* the error kinds of the specification, as the source raises them
ShapeMismatch == pc = "raised" /\ outcome.type = "IndexError"
InsufficientSensors ==
    /\ pc = "raised"
    /\ outcome \in {ValueError("rij.shape[1] < "), ValueError("sum(wgt != 0) < ")}
InvalidDimension == pc = "raised" /\ outcome = ValueError("rij.shape[0] != 2|3")

\* nothing after the input checks has run
NoWork ==
    /\ pc \in {"start", "weights", "raised"}
    /\ idx = <<>> /\ cij = <<>> /\ cmax = <<>> /\ tau_p = <<>> /\ s_p = <<>>

\* the checks of l.101-106 pass
ShapesPass == data.cols = rij.cols /\ rij.cols >= rij.rows + 1 /\ rij.rows \in {2, 3}

\* C1: a call whose data and rij differ in their number of columns ends in
\* ShapeMismatch whatever dim, hz and wgt are, and so does a call that passes
\* the checks on data and rij but whose wgt has a length other than n; in
\* both cases nothing is returned and no pair, correlation or least-squares
\* step runs.
C1_ShapeMismatch ==
    /\ data.cols # rij.cols =>
        /\ NoWork
        /\ pc # "weights"
        /\ pc = "raised" => ShapeMismatch
    /\ (ShapesPass /\ wgt.given /\ Len(wgt.v) # data.cols) =>
        /\ NoWork
        /\ pc = "raised" => ShapeMismatch

\* C1 witness: a call with mismatched data and rij, a dimension that is not
\* 2 or 3 and too few sensors has raised the IndexError
C1_Witness ==
    /\ ShapeMismatch
    /\ data.cols # rij.cols
    /\ rij.rows > 3
    /\ rij.cols < rij.rows + 1

\* C2: with matching sensor counts and dim in {2,3}, the call ends in
\* InsufficientSensors if n < dim+1 and, for a wgt of length n, if fewer
\* than dim+1 weights are nonzero; with n >= dim+1 and wgt omitted or with
\* at least dim+1 nonzero weights it never ends in InsufficientSensors.
C2_InsufficientSensors ==
    (data.cols = rij.cols /\ rij.rows \in {2, 3}) =>
        /\ rij.cols < rij.rows + 1 =>
            /\ NoWork
            /\ pc # "weights"
            /\ pc = "raised" => InsufficientSensors
        /\ (rij.cols >= rij.rows + 1 /\ wgt.given /\ Len(wgt.v) = rij.cols
              /\ Cardinality({i \in 1..Len(wgt.v) : wgt.v[i] # 0}) < rij.rows + 1) =>
            /\ NoWork
            /\ pc = "raised" => InsufficientSensors
        /\ (rij.cols >= rij.rows + 1
              /\ (wgt.given =>
                    Cardinality({i \in 1..Len(wgt.v) : wgt.v[i] # 0}) >= rij.rows + 1)) =>
            ~InsufficientSensors

\* C2 witness: enough sensors, a weight vector of the right length with too
\* few nonzero entries, and the ValueError of the weight check raised
C2_Witness ==
    /\ pc = "raised"
    /\ outcome = ValueError("sum(wgt != 0) < ")
    /\ ShapesPass
    /\ wgt.given /\ Len(wgt.v) = rij.cols
    /\ \E i \in 1..Len(wgt.v) : wgt.v[i] # 0

\* C3 as claimed: with matching sensor counts and dim not in {2,3} the call
\* ends in InvalidDimension for every n, n <= dim included.
C3_Original ==
    (data.cols = rij.cols /\ rij.rows \notin {2, 3}) =>
        /\ NoWork
        /\ pc # "weights"
        /\ pc = "raised" => InvalidDimension

\* C3 as amended: with matching sensor counts and dim not in {2,3} the call
\* ends in InvalidDimension when n >= dim+1; when n < dim+1 the sensor-count
\* check of l.103 comes first and the call ends in InsufficientSensors.
C3_InvalidDimension ==
    (data.cols = rij.cols /\ rij.rows \notin {2, 3}) =>
        /\ NoWork
        /\ pc # "weights"
        /\ (pc = "raised" /\ rij.cols >= rij.rows + 1) => InvalidDimension
        /\ (pc = "raised" /\ rij.cols < rij.rows + 1) =>
              outcome = ValueError("rij.shape[1] < ")

\* C3 witness: a 4-dimensional layout of enough sensors was refused for its
\* dimension
C3_Witness ==
    /\ InvalidDimension
    /\ data.cols = rij.cols
    /\ rij.rows > 3
    /\ rij.cols >= rij.rows + 1

\* the position (0-based) of the pair (i, j), i < j, among the pairs of n
\* sensors listed with i ascending and, for each i, j ascending
PairPos(i, j, n) == i * n - (i * (i + 1)) \div 2 + (j - i - 1)

\* C4: tau, cmax and xij have N = n(n-1)/2 entries; entry k is that of the
\* k-th pair in the order i ascending, then j ascending, each pair i < j once;
\* xij[:,k] = rij[:,i] - rij[:,j] and W[k,k] = wgt[i]*wgt[j].
C4_PairOrder ==
    /\ pc \in {"correlate", "extract", "solve", "convert", "uncertainty", "returned"} =>
        /\ N = (nTraces * (nTraces - 1)) \div 2
        /\ Len(idx) = N /\ Len(W) = N /\ xij.cols = N /\ xij.rows = dim
        /\ \A i \in 0..(nTraces - 2) : \A j \in (i + 1)..(nTraces - 1) :
            LET p == PairPos(i, j, nTraces) + 1 IN
            /\ idx[p][1] = i /\ idx[p][2] = j
            /\ W[p] = wgt.v[i + 1] * wgt.v[j + 1]
            /\ \A d \in 1..dim : xij.at[d][p] = rij.at[d][i + 1] - rij.at[d][j + 1]
    /\ pc = "returned" =>
        /\ Len(ret.tau) = N /\ Len(ret.cmax) = N
        /\ ret.xij = xij

\* C4 witness: a call on four sensors at distinct places, with weights that
\* differ, has returned
C4_Witness ==
    /\ pc = "returned"
    /\ nTraces = 4
    /\ \E i, j \in 1..nTraces : wgt.v[i] # wgt.v[j]
    /\ \A p \in 1..N : \E d \in 1..dim : xij.at[d][p] # 0

\* the array a without its column z (1-based), the sequence w without entry z
DropCol(a, z) ==
    Arr(a.rows, a.cols - 1,
        [r \in 1..a.rows |-> [c \in 1..(a.cols - 1) |-> a.at[r][IF c < z THEN c ELSE c + 1]]])
DropAt(w, z) == [i \in 1..(Len(w) - 1) |-> w[IF i < z THEN i ELSE i + 1]]

\* l.129-134, l.152 on the arguments (r, w), w in array form: X_p
XpOf(r, w) == Xp(Wdiag(Idx(r.cols, w)), CoArray(r, Idx(r.cols, w)))

\* l.138-153 for pair p of the arguments (d, r, h, w): the values tau_p[p]
\* can take, one for a written column, one for each content of an
\* unwritten column
TauPAt(d, r, h, w, p) ==
    LET e == Idx(r.cols, w)[p] IN
    IF e[3] # 0
    THEN {TauP(e[3], Tau(d.rows, Delay(CorrCoeff(Col(d, e[1]), Col(d, e[2]))), h))}
    ELSE {TauP(e[3], Tau(d.rows, Delay(q), h)) : q \in JunkCols(2 * d.rows - 1)}

RECURSIVE TauPTo(_, _, _, _, _)
\* the vectors tau_p[1..n] the computation on (d, r, h, w) can produce
TauPTo(d, r, h, w, n) ==
    IF n = 0 THEN {<<>>}
    ELSE {Append(f, v) : f \in TauPTo(d, r, h, w, n - 1), v \in TauPAt(d, r, h, w, n)}
TauPOf(d, r, h, w) == TauPTo(d, r, h, w, (r.cols * (r.cols - 1)) \div 2)

\* C5: a sensor of weight 0 does not influence the solution: whatever its
\* trace and whatever the unwritten columns of the correlation buffer held,
\* X_p^T X_p and X_p^T tau_p are those of the computation on the array
\* without that sensor (the other sensors' places and weights unchanged,
\* and whatever that computation's unwritten columns hold).
C5_ZeroWeightExcluded ==
    pc \in {"solve", "convert", "uncertainty", "returned"} =>
        \A z \in 1..nTraces : wgt.v[z] = 0 =>
            LET d2 == DropCol(data, z)
                r2 == DropCol(rij, z)
                w2 == DropAt(wgt.v, z)
            IN /\ Gram(XpOf(r2, w2), dim) = NormalA
               /\ \A tp \in TauPOf(d2, r2, hz, w2) : \A a \in 1..dim :
                    RatEq(XtTau(XpOf(r2, w2), tp, dim, hz)[a], NormalB[a])

\* C5 witness: a call with an excluded sensor whose trace is not zero, and a
\* right-hand side X_p^T tau_p that is not zero, has returned
C5_Witness ==
    /\ pc = "returned"
    /\ \E z \in 1..nTraces :
        /\ wgt.v[z] = 0
        /\ \E t \in 1..m : data.at[t][z] # 0
    /\ \E a \in 1..dim : NormalB[a].n # 0

\* the cross-correlation of traces i and j (0-based) at lag l, and the
\* product of the two energies it is normalised by (its square root)
XCorrAt(i, j, l) ==
    SumTo([t \in 1..m |-> IF t + l >= 1 /\ t + l <= m
                          THEN data.at[t + l][i + 1] * data.at[t][j + 1] ELSE 0], m)
EnergyProduct(i, j) ==
    SumTo([t \in 1..m |-> data.at[t][i + 1] * data.at[t][i + 1]], m)
    * SumTo([t \in 1..m |-> data.at[t][j + 1] * data.at[t][j + 1]], m)

\* C6: the returned cmax[k] is 0 for a pair of weight 0, whatever the
\* unwritten column held; for a pair of nonzero weight it is the largest,
\* over the 2m-1 lags, of the normalised cross-correlation of traces i and j
\* (NaN when a trace has no energy and the normalisation is 0/0).
C6_Cmax ==
    pc = "returned" =>
        \A p \in 1..N :
            LET i == idx[p][1]
                j == idx[p][2]
                c == ret.cmax[p]
            IN IF wgt.v[i + 1] * wgt.v[j + 1] = 0
               THEN c = Zero
               ELSE IF EnergyProduct(i, j) = 0
               THEN c.nan
               ELSE /\ ~c.nan
                    /\ c.den2 = EnergyProduct(i, j)
                    /\ \A l \in (1 - m)..(m - 1) : c.num >= XCorrAt(i, j, l)
                    /\ \E l \in (1 - m)..(m - 1) : c.num = XCorrAt(i, j, l)

\* C6 witness: a call has returned with a pair of weight 0 and a pair of
\* nonzero weight whose largest correlation is neither 0 nor 1
C6_Witness ==
    /\ pc = "returned"
    /\ \E p \in 1..N : W[p] = 0
    /\ \E p \in 1..N :
        /\ W[p] # 0
        /\ ~ret.cmax[p].nan
        /\ ret.cmax[p].num > 0
        /\ ret.cmax[p].num * ret.cmax[p].num < ret.cmax[p].den2

\* C7: for every pair k of nonzero weight the tau[k] returned is
\* (m - (argmax_index_k + 1)) / hz, argmax_index_k the 0-based index of the
\* maximum of correlation column k, for every admissible weight vector.
C7_ReturnedTau ==
    pc = "returned" =>
        \A p \in 1..N : W[p] # 0 =>
            RatEq(ret.tau[p], Rat(m - (ArgMax(cij[p]) + 1), hz))

\* s_p[0] and s_p[1] of the call that returned, and its azimuth
Northing == ret.s[1].n
Easting == ret.s[2].n
ReturnedAz == IF dim = 3 THEN ret.az[1] ELSE ret.az

\* C8: a slowness [s0, 0], s0 > 0, gives az = 0 (or 360), a slowness
\* [0, s0], s0 > 0, gives az = 90, and az lies in [0, 360).
C8_AzimuthConvention ==
    pc = "returned" =>
        /\ (Northing > 0 /\ Easting = 0) => ReturnedAz \in {Exact(0), Exact(360)}
        /\ (Northing = 0 /\ Easting > 0) => ReturnedAz = Exact(90)
        /\ ReturnedAz.lo >= 0 /\ ReturnedAz.hi <= 360
        /\ ReturnedAz.lo = ReturnedAz.hi => ReturnedAz.hi < 360

\* C9 as claimed: with exactly dim+1 sensors of nonzero weight, N_p equals
\* dim, the divisor N_p - dim is 0 and sig_tau is undefined.
C9_Original ==
    (pc = "returned" /\ N_w = dim + 1) =>
        /\ N_p = dim
        /\ ret.sig_tau.undef

\* C9 as amended: with exactly dim+1 sensors of nonzero weight, N_p is
\* (dim+1)dim/2 (3 for dim 2, 6 for dim 3), the divisor N_p - dim is
\* dim(dim-1)/2 (1 or 3), and for every call that returns the divisor is at
\* least 1 and sig_tau is a finite number, not an undefined one.
C9_DegreesOfFreedom ==
    pc = "returned" =>
        /\ N_w = Cardinality({i \in 1..nTraces : wgt.v[i] # 0})
        /\ N_p - dim >= 1
        /\ ~ret.sig_tau.undef
        /\ ret.sig_tau.sq.d > 0
        /\ N_w = dim + 1 =>
            /\ 2 * N_p = (dim + 1) * dim
            /\ 2 * (N_p - dim) = dim * (dim - 1)

\* C9 witness: a call on a 3-d layout with exactly four sensors of nonzero
\* weight has returned
C9_Witness ==
    /\ pc = "returned"
    /\ dim = 3
    /\ N_w = dim + 1

\* the first maximum of a column is at position p (1-based), and nowhere else
PeakOnlyAt(col, p) == \A q \in 1..Len(col) : q # p => FLess(col[q], col[p])

\* C10 as claimed: for a pair of nonzero weight whose trace j is trace i
\* delayed by d samples, 0 <= d < m, zeros shifted in and a nonzero sample
\* left in the overlap, the delay computed is d/hz; for d = 0 the
\* correlation has its maximum only at zero lag, the centre of the column.
C10_Original ==
    pc = "returned" =>
        \A p \in 1..N : W[p] # 0 =>
            LET x == Col(data, idx[p][1])
                y == Col(data, idx[p][2])
            IN \A d \in 0..(m - 1) :
                (/\ y = [t \in 1..m |-> IF t - d >= 1 THEN x[t - d] ELSE 0]
                 /\ \E t \in 1..(m - d) : x[t] # 0) =>
                    /\ RatEq(tau_p[p], Rat(W[p] * d, hz))
                    /\ d = 0 => PeakOnlyAt(cij[p], m)

\* C10 as amended: for a pair of nonzero weight whose trace j is trace i
\* delayed by d samples, 0 <= d < m, where trace i is not all zero and no
\* nonzero sample is shifted out (the last d samples of trace i are zero),
\* the correlation has its maximum only at lag -d, position m-d of the
\* column, and the delay computed is d/hz; for d = 0 this is the zero lag
\* at the centre of the column and a delay of 0.
C10_DelayedCopy ==
    pc = "returned" =>
        \A p \in 1..N : W[p] # 0 =>
            LET x == Col(data, idx[p][1])
                y == Col(data, idx[p][2])
            IN \A d \in 0..(m - 1) :
                (/\ y = [t \in 1..m |-> IF t - d >= 1 THEN x[t - d] ELSE 0]
                 /\ \E t \in 1..m : x[t] # 0
                 /\ \A t \in (m - d + 1)..m : x[t] = 0) =>
                    /\ RatEq(tau_p[p], Rat(W[p] * d, hz))
                    /\ PeakOnlyAt(cij[p], m - d)

\* C10 witness: a call has returned in which a trace is a copy of another
\* delayed by at least one sample, nothing nonzero shifted out
C10_Witness ==
    /\ pc = "returned"
    /\ \E p \in 1..N : \E d \in 1..(m - 1) :
        LET x == Col(data, idx[p][1])
            y == Col(data, idx[p][2])
        IN /\ W[p] # 0
           /\ y = [t \in 1..m |-> IF t - d >= 1 THEN x[t - d] ELSE 0]
           /\ \E t \in 1..m : x[t] > 1
           /\ \A t \in (m - d + 1)..m : x[t] = 0

====
